---- MODULE Spec2Model ----
(***************************************************************************)
(* nequip-benchmark (nequip/scripts/benchmark.py, main): frame sampling,   *)
(* model preparation, warmup, and the tracing / timing measurement modes.  *)
(* One run of main() is one behaviour; the command line, the configuration *)
(* and the dataset are fixed in the initial state.                         *)
(***************************************************************************)
EXTENDS Integers, Sequences, FiniteSets

(* ------------------------------ bounds --------------------------------- *)
\* largest trial count -n
MaxN == 2
\* largest dataset size len(dataset)
MaxDataset == 2
\* largest configured _jit_bailout_depth
MaxBailout == 1

(* --------------------------- program constants ------------------------- *)
\* line 171: warmup = config["_jit_bailout_depth"] + 4
WarmupMargin == 4
\* line 186: schedule(wait=1, ...)
ProfWait == 1
\* line 186: schedule(..., repeat=1)
ProfRepeat == 1
\* line 190: range(1 + warmup + args.n)
TraceExtra == 1
\* torch Timer.timeit(number): its own untimed warm-up runs the statement
\* max(number // 100, 2) times before the measured block (line 206)
TimerWarmupDiv == 100
TimerWarmupMin == 2

\* atom counts a dataset frame may have
AtomCounts == {1, 100}
\* per-call times the timer may report, in seconds: 1, 12, 125, 0.0125 and
\* 0.00025, as [numerator, denominator] in lowest terms
RawTimes ==
    {[num |-> 1, den |-> 1], [num |-> 12, den |-> 1], [num |-> 125, den |-> 1],
     [num |-> 1, den |-> 80], [num |-> 1, den |-> 4000]}
\* Measurement.significant_figures values the timer may report
SigFigs == {1, 2}
\* args.timestep values, in fs
Timesteps == {1, 2}
\* the fields of a frame as produced by AtomicData.to_AtomicDataDict
BaseKeys == {"pos", "edge_index"}
\* a field the model writes into the mapping it is given
ScratchKey == "scratch"
\* what the model may do to the mapping it receives
Effects == {"add_field", "inplace"}

VARIABLES
    n,          \* args.n
    n_data,     \* args.n_data
    profile,    \* args.profile is not None
    no_compile, \* args.no_compile
    bailout,    \* config["_jit_bailout_depth"]
    dataset,    \* dataset[i]: atom count of frame i (1-based)
    perm,       \* torch.randperm(len(dataset), generator=dataset_rng)
    effects,    \* behaviour of the model's forward on its argument
    pc,         \* position in main()
    outcome,    \* how the run ended: "none", "ok", "quit", or the exception
    phase,      \* driver phase
    phases,     \* phases entered so far, in order
    datas,      \* the list `datas` (line 97): the frame pool
    tensors,    \* storage of the "pos" tensor of each pool frame
    n_atom,     \* line 101
    printed,    \* the dataset diagnostics printed (lines 106-127)
    cursor,     \* itertools.cycle position: number of next() calls so far
    cycled,     \* line 130 executed
    model,      \* the object bound to `model`
    file,       \* the temporary file f: whether its path exists, module saved in it
    prepLog,    \* preparation steps executed, in order
    prepIdx,    \* steps of the compiled path completed
    warmup,     \* line 171
    iter,       \* loop counter of the current loop
    calls,      \* log of model invocations
    prof,       \* torch.profiler.profile state
    exports,    \* times trace_handler ran (export_chrome_trace)
    report      \* the results printed (lines 208-234)

inputs == <<n, n_data, profile, no_compile, bailout, dataset, perm, effects>>
sampling == <<datas, tensors, n_atom, printed, cursor, cycled>>
prep == <<model, file, prepLog, prepIdx, warmup>>
driver == <<iter, calls, prof, exports, report>>
vars == <<inputs, pc, outcome, phase, phases, sampling, prep, driver>>

(* ------------------------------ helpers -------------------------------- *)
Min(a, b) == IF a < b THEN a ELSE b
Max(a, b) == IF a > b THEN a ELSE b

Permutations(k) ==
    {p \in [1..k -> 1..k] : \A i, j \in 1..k : p[i] = p[j] => i = j}

\* s[:k] on a Python sequence
PySlicePrefix(s, k) ==
    IF k >= 0 THEN SubSeq(s, 1, Min(k, Len(s)))
    ELSE SubSeq(s, 1, Max(Len(s) + k, 0))

\* lines 97-100: indices of the frames materialised
Picked(p, k) == PySlicePrefix(p, k)

\* lines 97-100: the list of frame mappings; id is the identity of the
\* mapping object (its position in the list), ref the storage of its tensors
MakeDatas(p, k) ==
    [i \in 1..Len(Picked(p, k)) |-> [id |-> i, keys |-> BaseKeys, ref |-> i]]

\* lines 97-100: the tensors of dataset[i] for each picked i; src is the
\* dataset index the frame came from, dirty whether its contents were
\* overwritten since
MakeTensors(ds, p, k) ==
    [i \in 1..Len(Picked(p, k)) |->
        [src |-> Picked(p, k)[i], natoms |-> ds[Picked(p, k)[i]], dirty |-> FALSE]]

\* len(d["pos"])
LenPos(d, ts) == ts[d.ref].natoms

\* any() written for all()
AnySameAtoms(ds, ts, a) == \E i \in 1..Len(ds) : LenPos(ds[i], ts) = a

\* line 102: all(len(d["pos"]) == n_atom for d in datas)
AllSameAtoms(ds, ts, a) == \A i \in 1..Len(ds) : LenPos(ds[i], ts) = a

NoModel == [form |-> "none", device |-> FALSE, deployed |-> FALSE, frozen |-> FALSE, loads |-> 0]
NoFile == [exists |-> FALSE, module |-> NoModel]
NoProf == [step |-> 0, action |-> "off"]
NoReport ==
    [figures |-> 0, metrics |-> 0, raw |-> [num |-> 0, den |-> 1], sig |-> 0,
     trim_time |-> [num |-> 0, den |-> 1], timestep |-> 0,
     per_atom |-> [num |-> 0, den |-> 1], ns_day |-> [num |-> 0, den |-> 1]]

Init ==
    /\ n \in -1..MaxN
    /\ n_data \in -1..(MaxDataset + 1)
    /\ profile \in BOOLEAN
    /\ no_compile \in BOOLEAN
    /\ bailout \in 0..MaxBailout
    /\ \E len \in 1..MaxDataset :
         /\ dataset \in [1..len -> AtomCounts]
         /\ perm \in Permutations(len)
    /\ effects \in SUBSET Effects
    /\ pc = "sample"
    /\ outcome = "none"
    /\ phase = "Idle"
    /\ phases = <<"Idle">>
    /\ datas = <<>>
    /\ tensors = <<>>
    /\ n_atom = 0
    /\ printed = <<>>
    /\ cursor = 0
    /\ cycled = FALSE
    /\ model = NoModel
    /\ file = NoFile
    /\ prepLog = <<>>
    /\ prepIdx = 0
    /\ warmup = 0
    /\ iter = 0
    /\ calls = <<>>
    /\ prof = NoProf
    /\ exports = 0
    /\ report = NoReport

(* --------------------------- Frame Sampler ----------------------------- *)
\* lines 95-100
Sample ==
    /\ pc = "sample"
    /\ datas' = MakeDatas(perm, n_data)
    /\ tensors' = MakeTensors(dataset, perm, n_data)
    /\ pc' = "validate"
    /\ UNCHANGED <<inputs, outcome, phase, phases, n_atom, printed, cursor, cycled, prep, driver>>

\* the -n 0 short circuit taken before the atom counts are compared
ValidateSkippedOnZero ==
    /\ pc = "validate"
    /\ IF Len(datas) = 0
       THEN /\ pc' = "failed"
            /\ outcome' = "IndexError"
            /\ UNCHANGED n_atom
       ELSE /\ n_atom' = LenPos(datas[1], tensors)
            /\ IF n = 0 \/ AllSameAtoms(datas, tensors, LenPos(datas[1], tensors))
               THEN pc' = "diagnostics" /\ UNCHANGED outcome
               ELSE pc' = "failed" /\ outcome' = "NotImplementedError"
    /\ UNCHANGED <<inputs, phase, phases, datas, tensors, printed, cursor, cycled, prep, driver>>

\* lines 101-105
Validate ==
    /\ pc = "validate"
    /\ IF Len(datas) = 0
       THEN /\ pc' = "failed"
            /\ outcome' = "IndexError"
            /\ UNCHANGED n_atom
       ELSE /\ n_atom' = LenPos(datas[1], tensors)
            /\ IF AllSameAtoms(datas, tensors, LenPos(datas[1], tensors))
               THEN pc' = "diagnostics" /\ UNCHANGED outcome
               ELSE pc' = "failed" /\ outcome' = "NotImplementedError"
    /\ UNCHANGED <<inputs, phase, phases, datas, tensors, printed, cursor, cycled, prep, driver>>

\* lines 106-127
Diagnostics ==
    /\ pc = "diagnostics"
    /\ printed' = <<[size |-> Len(dataset), n_data |-> n_data, n_atom |-> n_atom]>>
    /\ pc' = "cycle"
    /\ UNCHANGED <<inputs, outcome, phase, phases, datas, tensors, n_atom, cursor, cycled, prep, driver>>

\* line 130
Cycle ==
    /\ pc = "cycle"
    /\ cycled' = TRUE
    /\ cursor' = 0
    /\ pc' = "shortcircuit"
    /\ UNCHANGED <<inputs, outcome, phase, phases, datas, tensors, n_atom, printed, prep, driver>>

\* the short circuit testing the wrong sign
QuitEarlyNegative(k) == k < 0

\* line 133
QuitEarly(k) == k = 0

\* lines 133-135
ShortCircuit ==
    /\ pc = "shortcircuit"
    /\ IF QuitEarly(n)
       THEN pc' = "done" /\ outcome' = "quit"
       ELSE pc' = "build" /\ UNCHANGED outcome
    /\ UNCHANGED <<inputs, phase, phases, sampling, prep, driver>>

(* --------------------------- Model Preparer ---------------------------- *)
\* lines 138-148: model_from_config(...), model.eval()
BuildModel ==
    /\ pc = "build"
    /\ model' = [NoModel EXCEPT !.form = "eager"]
    /\ pc' = IF no_compile THEN "to_device" ELSE "compile"
    /\ UNCHANGED <<inputs, outcome, phase, phases, sampling, file, prepLog, prepIdx, warmup, driver>>

\* line 150: model = model.to(device)
ToDevice ==
    /\ pc = "to_device"
    /\ model' = [model EXCEPT !.device = TRUE]
    /\ prepLog' = Append(prepLog, "to_device")
    /\ pc' = "warmup_depth"
    /\ UNCHANGED <<inputs, outcome, phase, phases, sampling, file, prepIdx, warmup, driver>>

\* the second save / load round trip left out
CompiledStepsOneRoundTrip == <<"script", "deploy", "save", "load", "freeze">>

\* lines 155-168, in program order
CompiledSteps == <<"script", "deploy", "save", "load", "freeze", "save", "load">>

\* the reloaded module not bound to `model`
StepModelLoadDropped(step, m, f) ==
    CASE step = "script" -> [m EXCEPT !.form = "script"]
      [] step = "deploy" -> [m EXCEPT !.deployed = TRUE]
      [] step = "save"   -> m
      [] step = "load"   -> m
      [] step = "freeze" -> [m EXCEPT !.frozen = TRUE]

\* the object bound to `model` after one step
StepModel(step, m, f) ==
    CASE step = "script" -> [m EXCEPT !.form = "script"]
      [] step = "deploy" -> [m EXCEPT !.deployed = TRUE]
      [] step = "save"   -> m
      [] step = "load"   -> [f.module EXCEPT !.device = TRUE, !.loads = @ + 1]
      [] step = "freeze" -> [m EXCEPT !.frozen = TRUE]

\* the temporary file after one step: torch.jit.save writes the module to
\* f.name, inside the with block that created f
StepFile(step, m, f) == IF step = "save" THEN [exists |-> TRUE, module |-> m] ELSE f

\* line 168 is the last statement of the with block of line 161: leaving the
\* block closes f, which deletes it
LeavesWith(idx) == idx = Len(CompiledSteps)

\* one step of lines 155-168 returns normally; after the last one the with
\* block is left and f is gone
PrepStep ==
    /\ pc = "compile"
    /\ prepIdx < Len(CompiledSteps)
    /\ LET step == CompiledSteps[prepIdx + 1] IN
         /\ model' = StepModel(step, model, file)
         /\ file' = IF LeavesWith(prepIdx + 1) THEN NoFile
                    ELSE StepFile(step, model, file)
         /\ prepLog' = Append(prepLog, step)
    /\ prepIdx' = prepIdx + 1
    /\ pc' = IF prepIdx + 1 = Len(CompiledSteps) THEN "warmup_depth" ELSE "compile"
    /\ UNCHANGED <<inputs, outcome, phase, phases, sampling, warmup, driver>>

\* a failed step caught and the eager model used instead
PrepFailFallsBack ==
    /\ pc = "compile"
    /\ prepIdx < Len(CompiledSteps)
    /\ model' = [NoModel EXCEPT !.form = "eager"]
    /\ file' = NoFile
    /\ pc' = "to_device"
    /\ outcome' = "CompileError"
    /\ UNCHANGED <<inputs, phase, phases, sampling, prepLog, prepIdx, warmup, driver>>

\* one step of lines 155-168 raises: nothing catches it; an exception raised
\* inside the with block unwinds through it, which deletes f, and before the
\* block f does not exist yet
PrepFail ==
    /\ pc = "compile"
    /\ prepIdx < Len(CompiledSteps)
    /\ file' = NoFile
    /\ pc' = "failed"
    /\ outcome' = "CompileError"
    /\ UNCHANGED <<inputs, phase, phases, sampling, model, prepLog, prepIdx, warmup, driver>>

\* the safety margin left out
WarmupDepthNoMargin(b) == b

\* warmup skipped when the model is not compiled
WarmupDepthCompiledOnly(b) == IF no_compile THEN 0 ELSE b + WarmupMargin

\* line 171
WarmupDepth(b) == b + WarmupMargin

\* the --profile switch ignored
UseProfilerNever(pr) == FALSE

\* line 173
UseProfiler(pr) == pr

\* lines 171-173
SetWarmup ==
    /\ pc = "warmup_depth"
    /\ warmup' = WarmupDepth(bailout)
    /\ pc' = IF UseProfiler(profile) THEN "trace_begin" ELSE "warmup_begin"
    /\ UNCHANGED <<inputs, outcome, phase, phases, sampling, model, file, prepLog, prepIdx, driver>>

(* --------------------------- Execution Driver -------------------------- *)
\* next(datas) on itertools.cycle(datas): pool position of the c-th retrieval
NextPos(c, len) == (c % len) + 1

\* the pool's own mapping object handed to the model
NoCopy(d) == d

\* dict.copy(): a new mapping object (identity 0: held by nobody else) with
\* the same keys bound to the same tensor objects
Copy(d) == [d EXCEPT !.id = 0]

\* the pool after the model ran on `arg`: a field the model adds lands in the
\* mapping object it was given
CallDatas(ds, arg) ==
    IF "add_field" \in effects /\ arg.id # 0
    THEN [ds EXCEPT ![arg.id].keys = @ \cup {ScratchKey}]
    ELSE ds

\* tensor storage after the model ran on `arg`: an in-place write lands in
\* the tensor object the mapping refers to
CallTensors(ts, arg) ==
    IF "inplace" \in effects
    THEN [ts EXCEPT ![arg.ref].dirty = TRUE]
    ELSE ts

\* model(next(datas).copy())
Invoke(kind) ==
    LET p == NextPos(cursor, Len(datas))
        arg == Copy(datas[p])
    IN /\ cursor' = cursor + 1
       /\ datas' = CallDatas(datas, arg)
       /\ tensors' = CallTensors(tensors, arg)
       /\ calls' = Append(calls, [pos |-> p, kind |-> kind, model |-> model,
                                  action |-> prof.action])
       /\ UNCHANGED <<n_atom, printed, cycled>>

EnterPhase(p) == phase' = p /\ phases' = Append(phases, p)

\* torch.profiler.schedule(wait, warmup, active, repeat): action at a step
ScheduleFn(step, wait, wu, active, repeat) ==
    LET num == wait + wu + active
        m == step % num
    IN IF repeat > 0 /\ step >= repeat * num THEN "NONE"
       ELSE IF m < wait THEN "NONE"
       ELSE IF m < wait + wu THEN "WARMUP"
       ELSE IF m < num - 1 THEN "RECORD"
       ELSE "RECORD_AND_SAVE"

\* the schedule built without its wait step
ScheduleNoWait(step) == ScheduleFn(step, 0, warmup, n, ProfRepeat)

\* line 186
Schedule(step) == ScheduleFn(step, ProfWait, warmup, n, ProfRepeat)

\* the trace handler never called
TraceReadyNever(prev) == FALSE

\* on_trace_ready fires when the profiler leaves RECORD_AND_SAVE
TraceReady(prev) == prev = "RECORD_AND_SAVE"

\* the throwaway first call forgotten in the loop bound
TraceCallsNoWait(w, k) == w + k

\* line 190
TraceCalls(w, k) == TraceExtra + w + k

\* torch.profiler.schedule asserts its arguments: active must be positive
ScheduleArgsOk(wait, wu, active, repeat) ==
    wait >= 0 /\ wu >= 0 /\ active > 0 /\ repeat >= 0

\* lines 175-179: the trace handler defined, print("Starting...")
TraceBegin ==
    /\ pc = "trace_begin"
    /\ EnterPhase("Tracing")
    /\ pc' = "profile_enter"
    /\ UNCHANGED <<inputs, outcome, sampling, prep, iter, calls, prof, exports, report>>

\* lines 180-189: schedule(...) built, then profile.__enter__; a schedule
\* whose arguments are refused raises with the phase already announced
ProfileEnter ==
    /\ pc = "profile_enter"
    /\ IF ScheduleArgsOk(ProfWait, warmup, n, ProfRepeat)
       THEN /\ prof' = [step |-> 0, action |-> Schedule(0)]
            /\ pc' = "trace_loop"
            /\ UNCHANGED outcome
       ELSE /\ pc' = "failed"
            /\ outcome' = "AssertionError"
            /\ UNCHANGED prof
    /\ iter' = 0
    /\ UNCHANGED <<inputs, phase, phases, sampling, prep, calls, exports, report>>

\* lines 190-192: one iteration, model call then p.step()
TraceCall ==
    /\ pc = "trace_loop"
    /\ iter < TraceCalls(warmup, n)
    /\ Invoke("trace")
    /\ prof' = [step |-> prof.step + 1, action |-> Schedule(prof.step + 1)]
    /\ exports' = exports + (IF TraceReady(prof.action) THEN 1 ELSE 0)
    /\ iter' = iter + 1
    /\ UNCHANGED <<inputs, pc, outcome, phase, phases, prep, report>>

\* line 189-192: loop exhausted, profile.__exit__
ProfileExit ==
    /\ pc = "trace_loop"
    /\ iter >= TraceCalls(warmup, n)
    /\ exports' = exports + (IF TraceReady(prof.action) THEN 1 ELSE 0)
    /\ prof' = [prof EXCEPT !.action = "off"]
    /\ EnterPhase("Done")
    /\ pc' = "done"
    /\ outcome' = "ok"
    /\ UNCHANGED <<inputs, sampling, prep, iter, calls, report>>

\* lines 194-195
WarmupBegin ==
    /\ pc = "warmup_begin"
    /\ EnterPhase("Warmup")
    /\ iter' = 0
    /\ pc' = "warmup_loop"
    /\ UNCHANGED <<inputs, outcome, sampling, prep, calls, prof, exports, report>>

\* off by one in the warmup loop bound
WarmupRangeOffByOne(w) == w + 1

\* line 196: range(warmup)
WarmupRange(w) == w

\* lines 196-197
WarmupCall ==
    /\ pc = "warmup_loop"
    /\ iter < WarmupRange(warmup)
    /\ Invoke("warmup")
    /\ iter' = iter + 1
    /\ UNCHANGED <<inputs, pc, outcome, phase, phases, prep, prof, exports, report>>

\* lines 198-205: warmup loop exhausted, Timer constructed
TimingBegin ==
    /\ pc = "warmup_loop"
    /\ iter >= WarmupRange(warmup)
    /\ EnterPhase("Timing")
    /\ iter' = 0
    /\ pc' = "timer_warmup"
    /\ UNCHANGED <<inputs, outcome, sampling, prep, calls, prof, exports, report>>

\* Timer.timeit(number): untimed runs of the statement before the measured block
TimerWarmupCount(k) == Max(k \div TimerWarmupDiv, TimerWarmupMin)

\* Timer.timeit(number): runs of the statement in the measured block
TimeitNumber(k) == k

\* line 206, inside Timer.timeit: one untimed run of the statement
TimerWarmupCall ==
    /\ pc = "timer_warmup"
    /\ iter < TimerWarmupCount(n)
    /\ Invoke("timer_warmup")
    /\ iter' = iter + 1
    /\ UNCHANGED <<inputs, pc, outcome, phase, phases, prep, prof, exports, report>>

\* line 206, inside Timer.timeit: the measured block starts
TimerStart ==
    /\ pc = "timer_warmup"
    /\ iter >= TimerWarmupCount(n)
    /\ iter' = 0
    /\ pc' = "timed_loop"
    /\ UNCHANGED <<inputs, outcome, phase, phases, sampling, prep, calls, prof, exports, report>>

\* line 206, inside Timer.timeit: one measured run of the statement
TimedCall ==
    /\ pc = "timed_loop"
    /\ iter < TimeitNumber(n)
    /\ Invoke("timed")
    /\ iter' = iter + 1
    /\ UNCHANGED <<inputs, pc, outcome, phase, phases, prep, prof, exports, report>>

(* --------------------------- Metrics Reporter -------------------------- *)
\* floats are modelled as exact fractions [num, den] in lowest terms with
\* den > 0; times are in seconds
Abs(x) == IF x < 0 THEN -x ELSE x

RECURSIVE GCD(_, _)
GCD(a, b) == IF b = 0 THEN a ELSE GCD(b, a % b)

\* the value a / b, b # 0
Frac(a, b) ==
    LET g == GCD(Abs(a), Abs(b))
        sgn == IF b < 0 THEN -1 ELSE 1
    IN [num |-> (sgn * a) \div g, den |-> Abs(b) \div g]

FracAbs(x) == [num |-> Abs(x.num), den |-> x.den]
FracNeg(x) == [num |-> -x.num, den |-> x.den]
FracMul(x, y) == Frac(x.num * y.num, x.den * y.den)
FracDiv(x, y) == Frac(x.num * y.den, x.den * y.num)
FracSub(x, y) == Frac(x.num * y.den - y.num * x.den, x.den * y.den)
FracLeq(x, y) == x.num * y.den <= y.num * x.den

RECURSIVE Pow10Nat(_)
Pow10Nat(k) == IF k = 0 THEN 1 ELSE 10 * Pow10Nat(k - 1)

\* 10 ** k: a whole number for k >= 0, the fraction 1 / 10^(-k) for k < 0
Pow10(k) == IF k >= 0 THEN Frac(Pow10Nat(k), 1) ELSE Frac(1, Pow10Nat(-k))

\* ceil(log10(x)) for x > 0: the least m, negative for x <= 1/10, with
\* 10^m >= x
RECURSIVE CeilLog10From(_, _)
CeilLog10From(x, m) ==
    IF ~FracLeq(x, Pow10(m)) THEN CeilLog10From(x, m + 1)
    ELSE IF FracLeq(x, Pow10(m - 1)) THEN CeilLog10From(x, m - 1)
    ELSE m
CeilLog10(x) == CeilLog10From(x, 0)

\* round(x / s) for x >= 0, s >= 1, ties to even
RoundHalfEven(x, s) ==
    LET q == x \div s
        r == x % s
    IN IF 2 * r > s THEN q + 1
       ELSE IF 2 * r < s THEN q
       ELSE IF q % 2 = 0 THEN q ELSE q + 1

\* trim_sigfig(x, k): scale = 10 ** (ceil(log10|x|) - k), then
\* round(x / scale) * scale
TrimSigfig(x, k) ==
    LET scale == Pow10(CeilLog10(FracAbs(x)) - k)
        q == FracDiv(FracAbs(x), scale)
        t == FracMul(Frac(RoundHalfEven(q.num, q.den), 1), scale)
    IN IF x.num < 0 THEN FracNeg(t) ELSE t

\* Measurement.times[0]: the block's time divided by number_per_run
PerLoopTime(raw, k) == IF k < 0 THEN FracNeg(raw) ELSE raw

\* line 225: per_atom_time = trim_time / n_atom
PerAtomTime(t, a) == FracDiv(t, Frac(a, 1))

\* the conversion factor taken for fs to ps
NsPerDayWrongUnit(t, ts) ==
    FracMul(FracMul(FracDiv(Frac(86400, 1), t), Frac(ts, 1)), Frac(1, 1000))

\* line 230: ns_day = (86400.0 / trim_time) * args.timestep * 1e-6
NsPerDay(t, ts) ==
    FracMul(FracMul(FracDiv(Frac(86400, 1), t), Frac(ts, 1)), Frac(1, 1000000))

\* lines 208-234: one representative time, then per-atom time and ns/day
Report ==
    /\ pc = "timed_loop"
    /\ iter >= TimeitNumber(n)
    /\ \E raw \in RawTimes, sig \in SigFigs, ts \in Timesteps :
         LET t == TrimSigfig(PerLoopTime(raw, n), sig) IN
         report' = [figures |-> report.figures + 1, metrics |-> report.metrics + 2,
                    raw |-> PerLoopTime(raw, n), sig |-> sig,
                    trim_time |-> t, timestep |-> ts,
                    per_atom |-> PerAtomTime(t, n_atom),
                    ns_day |-> NsPerDay(t, ts)]
    /\ EnterPhase("Done")
    /\ pc' = "done"
    /\ outcome' = "ok"
    /\ UNCHANGED <<inputs, sampling, prep, iter, calls, prof, exports>>

\* lines 206-216 with a negative trial count: the measured block runs the
\* statement zero times and the Measurement divides its time by the negative
\* count; whether its statistics then raise depends on the torch build
ReportFail ==
    /\ pc = "timed_loop"
    /\ iter >= TimeitNumber(n)
    /\ n < 0
    /\ pc' = "failed"
    /\ outcome' = "ValueError"
    /\ UNCHANGED <<inputs, phase, phases, sampling, prep, driver>>

Next ==
    \/ Sample
    \/ Validate
    \/ Diagnostics
    \/ Cycle
    \/ ShortCircuit
    \/ BuildModel
    \/ ToDevice
    \/ PrepStep
    \/ PrepFail
    \/ SetWarmup
    \/ TraceBegin
    \/ ProfileEnter
    \/ TraceCall
    \/ ProfileExit
    \/ WarmupBegin
    \/ WarmupCall
    \/ TimingBegin
    \/ TimerWarmupCall
    \/ TimerStart
    \/ TimedCall
    \/ Report
    \/ ReportFail

Spec == Init /\ [][Next]_vars
(* ------------------------------ properties ----------------------------- *)
NumCalls(kind) == Cardinality({i \in 1..Len(calls) : calls[i].kind = kind})

\* C1: a run without --profile and with n > 0 invokes the model exactly
\* `warmup` times in the warmup loop, those before any invocation under the
\* timer, then exactly n times in the timer's measured block; it prints
\* exactly one representative time and never exports a trace.
C1_TimingCounts ==
    (~profile /\ n > 0) =>
        /\ exports = 0
        /\ NumCalls("trace") = 0
        /\ NumCalls("warmup") <= warmup
        /\ NumCalls("timed") <= n
        /\ report.figures <= 1
        /\ \A i, j \in 1..Len(calls) :
             (i < j /\ calls[j].kind = "warmup") => calls[i].kind = "warmup"
        /\ (phase \in {"Timing", "Done"}) => NumCalls("warmup") = warmup
        /\ (pc = "done") =>
             /\ NumCalls("timed") = n
             /\ report.figures = 1

C1_Witness ==
    /\ pc = "done" /\ ~profile /\ n = MaxN
    /\ NumCalls("warmup") = warmup /\ NumCalls("timed") = n
    /\ report.figures = 1

\* C2: a run with --profile and n > 0 invokes the model exactly
\* 1 + warmup + n times in total and exports the trace exactly once.
C2_TracingCounts ==
    (profile /\ n > 0) =>
        /\ exports <= 1
        /\ Len(calls) <= 1 + warmup + n
        /\ (pc = "done") => (Len(calls) = 1 + warmup + n /\ exports = 1)

C2_Witness ==
    /\ pc = "done" /\ profile /\ n = MaxN
    /\ Len(calls) = 1 + warmup + n /\ exports = 1

IsPrefix(s, t) == Len(s) <= Len(t) /\ \A i \in 1..Len(s) : s[i] = t[i]

\* C3 as stated: every run with n # 0 passes through Warmup, with exactly
\* `warmup` invocations, before it enters Tracing or Timing.
C3_WarmupBeforeEitherMode ==
    (n # 0 /\ phase \in {"Tracing", "Timing", "Done"}) =>
        /\ IsPrefix(<<"Idle", "Warmup">>, phases)
        /\ NumCalls("warmup") = warmup

\* C3, amended: a timing run (no --profile, n # 0) goes Idle, Warmup, Timing,
\* Done and has made exactly `warmup` invocations, all of them in Warmup, when
\* it enters Timing; a tracing run goes Idle, Tracing, Done, has made no
\* invocation when it enters Tracing and never makes one outside Tracing.
C3_PhaseOrder ==
    (n # 0) =>
        /\ profile => /\ IsPrefix(phases, <<"Idle", "Tracing", "Done">>)
                      /\ NumCalls("trace") = Len(calls)
                      /\ (phase = "Idle" => calls = <<>>)
        /\ ~profile => /\ IsPrefix(phases, <<"Idle", "Warmup", "Timing", "Done">>)
                       /\ (phase = "Idle" => calls = <<>>)
                       /\ (phase = "Warmup" => NumCalls("warmup") = Len(calls))
                       /\ (phase \in {"Timing", "Done"} =>
                             /\ NumCalls("warmup") = warmup
                             /\ \A i \in 1..warmup : calls[i].kind = "warmup")
        /\ (pc = "done") => phases[Len(phases)] = "Done" /\ Len(phases) >= 3

C3_Witness ==
    /\ pc = "done" /\ n # 0 /\ profile
    /\ phases = <<"Idle", "Tracing", "Done">>
    /\ Len(calls) > warmup

InPhases(p) == \E i \in 1..Len(phases) : phases[i] = p

\* C4: a run with n # 0 that reaches Done entered exactly one of Tracing and
\* Timing, Tracing iff --profile was given; a tracing run exports an artifact
\* and prints no timing figure or derived metric, a timing run prints one
\* timing figure and exports no artifact.
C4_ExactlyOneMeasurement ==
    (n # 0 /\ phase = "Done") =>
        /\ InPhases("Tracing") # InPhases("Timing")
        /\ InPhases("Tracing") = profile
        /\ InPhases("Tracing") => (exports = 1 /\ report = NoReport)
        /\ InPhases("Timing") => (exports = 0 /\ report.figures = 1)
        /\ exports + report.figures = 1

C4_Witness ==
    /\ phase = "Done" /\ n # 0 /\ profile
    /\ InPhases("Tracing") /\ exports = 1 /\ report = NoReport

\* C5: with n = 0 the run never leaves Idle: no model is built, compiled or
\* invoked, no frame is drawn from the cursor, nothing is measured or
\* exported, whatever --profile and --no-compile are; once the dataset
\* diagnostics are printed it ends normally at the short circuit.
C5_ZeroTrials ==
    (n = 0) =>
        /\ phases = <<"Idle">>
        /\ model = NoModel /\ file = NoFile /\ prepLog = <<>>
        /\ calls = <<>> /\ cursor = 0
        /\ exports = 0 /\ report = NoReport /\ prof = NoProf
        /\ pc \in {"sample", "validate", "diagnostics", "cycle", "shortcircuit", "done", "failed"}
        /\ (printed # <<>>) => (pc # "failed" /\ outcome \in {"none", "quit"})
        /\ (pc = "done") => (outcome = "quit" /\ printed # <<>>)

C5_Witness ==
    /\ n = 0 /\ pc = "done" /\ outcome = "quit"
    /\ profile /\ ~no_compile /\ printed # <<>> /\ Len(datas) = MaxDataset
\* C6: a run whose --n-data exceeds the dataset size fails before any model
\* is constructed and never goes on to sample, warm up or measure.
C6_OversizedRequestFails ==
    (n_data > Len(dataset)) =>
        /\ model = NoModel /\ calls = <<>>
        /\ pc \in {"sample", "failed"}

Sampled == pc # "sample"

\* C7: for 1 <= n-data <= N the sampler either yields a pool of exactly
\* n-data frames, the first n-data entries of the permutation (pairwise
\* distinct dataset indices), all with the first frame's atom count, or the
\* run fails with the variable-size error; after that failure no model is
\* constructed and no invocation occurs.
C7_SamplerContract ==
    (1 <= n_data /\ n_data <= Len(dataset) /\ Sampled) =>
        /\ Len(datas) = n_data /\ Len(tensors) = n_data
        /\ \A i \in 1..n_data : tensors[datas[i].ref].src = perm[i]
        /\ \A i, j \in 1..n_data :
             i # j => tensors[datas[i].ref].src # tensors[datas[j].ref].src
        /\ outcome # "IndexError"
        /\ (outcome = "NotImplementedError") =>
             /\ pc = "failed" /\ model = NoModel /\ prepLog = <<>> /\ calls = <<>>
             /\ \E i \in 1..n_data : dataset[perm[i]] # dataset[perm[1]]
        /\ (pc # "validate" /\ outcome # "NotImplementedError") =>
             /\ \A i \in 1..n_data : LenPos(datas[i], tensors) = dataset[perm[1]]
             /\ n_atom = dataset[perm[1]]

C7_Witness ==
    /\ n_data = MaxDataset /\ Len(dataset) = MaxDataset
    /\ pc = "done" /\ outcome = "ok" /\ Len(datas) = n_data
    /\ perm[1] # 1

C7_FailureReached ==
    /\ 1 <= n_data /\ n_data <= Len(dataset)
    /\ pc = "failed" /\ outcome = "NotImplementedError"

\* C8 as stated: whatever the model does to the frame it receives, adding
\* fields or writing into an existing field in place, the stored pool frames
\* are exactly as sampled.
C8_PoolNeverChanges ==
    Sampled => (datas = MakeDatas(perm, n_data) /\ tensors = MakeTensors(dataset, perm, n_data))

Visited(p) == \E i \in 1..Len(calls) : calls[i].pos = p

\* C8, amended: each invocation receives a fresh copy of the pool frame's
\* mapping only: a field the model adds never appears in a stored pool
\* frame, whose keys and tensor objects stay as sampled; the tensors are
\* shared with the copy, so a pool frame's contents are as sampled exactly
\* when the model writes nothing in place or has not yet been given that
\* frame.
C8_MappingCopiedTensorsShared ==
    Sampled =>
        /\ datas = MakeDatas(perm, n_data)
        /\ \A p \in 1..Len(tensors) :
             /\ tensors[p].dirty = ("inplace" \in effects /\ Visited(p))
             /\ tensors[p].natoms = MakeTensors(dataset, perm, n_data)[p].natoms
             /\ tensors[p].src = MakeTensors(dataset, perm, n_data)[p].src

C8_Witness ==
    /\ pc = "done" /\ outcome = "ok" /\ effects = Effects
    /\ Len(datas) = MaxDataset /\ Len(calls) > Len(datas)
    /\ datas = MakeDatas(perm, n_data)
    /\ \A p \in 1..Len(tensors) : tensors[p].dirty

\* C9: for a sample count n-data >= 1, the i-th retrieval from the cursor,
\* counting from 0, is pool frame i mod n-data.
C9_PeriodIsNData ==
    (n_data >= 1) =>
        \A i \in 1..Len(calls) : calls[i].pos = ((i - 1) % n_data) + 1

\* C10: on the compiled path the preparation steps run in the order compile,
\* deploy, serialize, deserialize, freeze, serialize, deserialize: two round
\* trips, one before and one after the single freeze; with --no-compile none
\* of compile, deploy, freeze, serialize or deserialize runs.
C10_PreparationOrder ==
    /\ ~no_compile =>
         /\ IsPrefix(prepLog, <<"script", "deploy", "save", "load", "freeze", "save", "load">>)
         /\ (pc \in {"warmup_depth", "trace_begin", "profile_enter", "trace_loop", "warmup_begin",
                     "warmup_loop", "timer_warmup", "timed_loop"} \/ outcome = "ok") =>
              /\ prepLog = <<"script", "deploy", "save", "load", "freeze", "save", "load">>
              /\ model = [form |-> "script", device |-> TRUE, deployed |-> TRUE,
                          frozen |-> TRUE, loads |-> 2]
              /\ file = NoFile
         /\ file.exists => (pc = "compile" /\ file.module.form = "script"
                                             /\ file.module.deployed)
         /\ calls # <<>> => Len(prepLog) = 7
    /\ no_compile =>
         /\ IsPrefix(prepLog, <<"to_device">>)
         /\ model.form \in {"none", "eager"}
         /\ ~model.deployed /\ ~model.frozen /\ model.loads = 0
         /\ file = NoFile
         /\ calls # <<>> => prepLog = <<"to_device">>

C10_Witness ==
    /\ ~no_compile /\ pc = "done" /\ outcome = "ok" /\ model.loads = 2 /\ Len(prepLog) = 7

C10_EagerReached ==
    /\ no_compile /\ pc = "done" /\ outcome = "ok" /\ prepLog = <<"to_device">>
\* C11: when a step of the compiled preparation path fails the run ends in
\* failure there: the eager model is never used in its place, and no warmup,
\* tracing or timing invocation and no measurement output follows. On the
\* compiled path nothing is invoked, measured or exported unless all seven
\* steps completed.
C11_CompileFailureIsFatal ==
    /\ (outcome = "CompileError") =>
         /\ pc = "failed" /\ ~no_compile
         /\ Len(prepLog) < 7
         /\ calls = <<>> /\ cursor = 0
         /\ file = NoFile
         /\ phases = <<"Idle">>
         /\ warmup = 0 /\ prof = NoProf
         /\ exports = 0 /\ report = NoReport
    /\ (~no_compile /\ (calls # <<>> \/ phase # "Idle" \/ exports > 0 \/ report # NoReport)) =>
         /\ Len(prepLog) = 7
         /\ model.form = "script"
         /\ outcome # "CompileError"
    /\ ~no_compile => \A i \in 1..Len(calls) : calls[i].model.form # "eager"

C11_Witness ==
    /\ outcome = "CompileError" /\ pc = "failed"
    /\ prepLog = <<"script", "deploy", "save", "load", "freeze", "save">>
    /\ n > 0 /\ calls = <<>>
\* the kind of the i-th invocation of a run, from the inputs other than
\* --no-compile
ExpectedKind(i) ==
    IF profile THEN "trace"
    ELSE IF i <= bailout + 4 THEN "warmup"
    ELSE IF i <= bailout + 4 + Max(n \div 100, 2) THEN "timer_warmup"
    ELSE "timed"

\* the number of invocations of a completed run, from the same inputs
ExpectedCalls ==
    IF profile THEN 1 + bailout + 4 + n
    ELSE bailout + 4 + Max(n \div 100, 2) + Max(n, 0)

\* C12: the pool sampled and the sequence of frames fed to the model, with
\* the phase each is fed in, are determined by the dataset, the permutation
\* drawn from the seed, n-data, n, the bailout depth and --profile alone, by
\* expressions in which --no-compile does not occur; so two runs that differ
\* only in --no-compile sample the same pool and feed the same frames in the
\* same order. The flag decides only the form of the model invoked.
C12_FramesIndependentOfCompile ==
    Sampled =>
        /\ Len(datas) = (IF n_data >= 0 THEN Min(n_data, Len(dataset))
                         ELSE Max(Len(dataset) + n_data, 0))
        /\ \A i \in 1..Len(datas) :
             /\ tensors[datas[i].ref].src = perm[i]
             /\ tensors[datas[i].ref].natoms = dataset[perm[i]]
        /\ \A i \in 1..Len(calls) :
             /\ calls[i].pos = ((i - 1) % Len(datas)) + 1
             /\ calls[i].kind = ExpectedKind(i)
             /\ calls[i].model.form = (IF no_compile THEN "eager" ELSE "script")
        /\ Len(calls) <= ExpectedCalls
        /\ (outcome = "ok") => Len(calls) = ExpectedCalls

C12_Witness ==
    /\ pc = "done" /\ outcome = "ok" /\ ~no_compile /\ ~profile
    /\ Len(datas) = MaxDataset /\ perm[1] # 1
    /\ NumCalls("timed") = MaxN

C12_EagerReached ==
    /\ pc = "done" /\ outcome = "ok" /\ no_compile /\ ~profile
    /\ Len(datas) = MaxDataset /\ perm[1] # 1
    /\ NumCalls("timed") = MaxN
WarmupSet ==
    \/ pc \in {"trace_begin", "profile_enter", "trace_loop", "warmup_begin", "warmup_loop",
               "timer_warmup", "timed_loop"}
    \/ outcome \in {"ok", "AssertionError", "ValueError"}

NumInAction(a) == Cardinality({i \in 1..Len(calls) : calls[i].action = a})

\* C13: once line 171 has run, the warmup depth is the configured bailout
\* depth plus 4, with and without --no-compile and whatever n, n-data and
\* --profile are; that one value bounds the warmup loop of a timing run, and
\* in a tracing run it is both the schedule's warmup length and the term of
\* the loop bound.
C13_WarmupDepth ==
    /\ WarmupSet => warmup = bailout + 4
    /\ ~WarmupSet => warmup = 0
    /\ (~profile /\ phase \in {"Timing", "Done"}) => NumCalls("warmup") = bailout + 4
    /\ (profile /\ phase = "Tracing") =>
         /\ NumInAction("WARMUP") <= bailout + 4
         /\ NumInAction("NONE") <= 1
    /\ (profile /\ phase = "Done") =>
         /\ NumInAction("WARMUP") = bailout + 4
         /\ Len(calls) = 1 + (bailout + 4) + n

C13_Witness ==
    /\ pc = "done" /\ outcome = "ok" /\ profile /\ no_compile
    /\ bailout = MaxBailout /\ warmup = MaxBailout + 4
    /\ NumInAction("WARMUP") = warmup

C13_TimingReached ==
    /\ pc = "done" /\ outcome = "ok" /\ ~profile /\ ~no_compile
    /\ bailout = MaxBailout /\ NumCalls("warmup") = MaxBailout + 4
\* C14: the derived metrics are computed from the trimmed representative
\* time t, the atom count A and the timestep alone: per-atom time is t / A
\* and ns/day is 86400 * timestep * 1e-6 / t; t = 1 s, A = 100, timestep =
\* 1 fs gives 0.01 s (1/100) and 0.0864 ns/day (864/10000). t is the reported
\* time rounded to the timer's significant figures: a whole multiple, of at
\* most that many digits, of a power of ten, within half that power of the
\* reported time. A tracing run computes none of them.
C14_DerivedMetrics ==
    /\ (report.figures = 0) => report = NoReport
    /\ profile => report = NoReport
    /\ (report.figures # 0) =>
         /\ report.figures = 1 /\ report.metrics = 2 /\ ~profile
         /\ report.per_atom.den > 0 /\ report.ns_day.den > 0
         /\ report.per_atom.num * (report.trim_time.den * n_atom)
              = report.per_atom.den * report.trim_time.num
         /\ report.ns_day = Frac(86400 * report.timestep * report.trim_time.den,
                                 1000000 * report.trim_time.num)
         /\ LET e == CeilLog10(FracAbs(report.raw)) - report.sig
                digits == FracDiv(FracAbs(report.trim_time), Pow10(e))
                err == FracAbs(FracSub(report.trim_time, report.raw))
            IN /\ digits.den = 1
               /\ digits.num <= Pow10Nat(report.sig)
               /\ FracLeq(FracMul(Frac(2, 1), err), Pow10(e))
               /\ (report.raw.num < 0) = (report.trim_time.num < 0)
         /\ (report.trim_time = [num |-> 1, den |-> 1] /\ n_atom = 100
               /\ report.timestep = 1) =>
              /\ report.per_atom.num * 100 = report.per_atom.den
              /\ report.ns_day.num * 10000 = report.ns_day.den * 864

C14_Witness ==
    /\ pc = "done" /\ outcome = "ok" /\ ~profile /\ n > 0
    /\ report.trim_time = [num |-> 1, den |-> 1] /\ n_atom = 100 /\ report.timestep = 1
    /\ report.per_atom = [num |-> 1, den |-> 100]
    /\ report.ns_day = [num |-> 54, den |-> 625]

C14_TrimReached ==
    /\ pc = "done" /\ outcome = "ok" /\ n > 0
    /\ report.raw = [num |-> 125, den |-> 1] /\ report.sig = 2
    /\ report.trim_time = [num |-> 120, den |-> 1]
    /\ report.per_atom.num = 120

C14_SubSecondReached ==
    /\ pc = "done" /\ outcome = "ok" /\ n > 0
    /\ report.raw = [num |-> 1, den |-> 80] /\ report.sig = 2
    /\ report.trim_time = [num |-> 3, den |-> 250]
    /\ n_atom = 100 /\ report.per_atom = [num |-> 3, den |-> 25000]
    /\ report.timestep = 2 /\ report.ns_day = [num |-> 72, den |-> 5]
Captured(i) == calls[i].action \in {"RECORD", "RECORD_AND_SAVE"}

\* C15: in a tracing run with n > 0 the schedule is stepped once after each
\* invocation; the first invocation falls in the wait phase, the next
\* `warmup` in the schedule's warmup phase, uncaptured, and exactly the last
\* n in the active phase, captured; the trace handler has fired exactly when
\* the last of them has completed, and closing the session does not fire it
\* again.
C15_ScheduleAndExport ==
    (profile /\ n > 0) =>
        /\ (pc = "trace_loop") => (prof.step = Len(calls) /\ iter = Len(calls))
        /\ \A i \in 1..Len(calls) :
             /\ (i = 1) => calls[i].action = "NONE"
             /\ (1 < i /\ i <= 1 + warmup) => calls[i].action = "WARMUP"
             /\ (i > 1 + warmup) => Captured(i)
             /\ (calls[i].action = "RECORD_AND_SAVE") = (i = 1 + warmup + n)
        /\ exports = (IF Len(calls) = 1 + warmup + n THEN 1 ELSE 0)
        /\ (pc = "done") =>
             /\ Cardinality({i \in 1..Len(calls) : Captured(i)}) = n
             /\ exports = 1 /\ prof.action = "off" /\ prof.step = 1 + warmup + n

C15_Witness ==
    /\ pc = "done" /\ profile /\ n = MaxN /\ exports = 1
    /\ calls[1].action = "NONE" /\ calls[2].action = "WARMUP"
    /\ calls[Len(calls)].action = "RECORD_AND_SAVE"
    /\ calls[Len(calls) - 1].action = "RECORD"
PreparedModel ==
    IF no_compile
    THEN [form |-> "eager", device |-> TRUE, deployed |-> FALSE, frozen |-> FALSE, loads |-> 0]
    ELSE [form |-> "script", device |-> TRUE, deployed |-> TRUE, frozen |-> TRUE, loads |-> 2]

C16_InvokedPrepared ==
    /\ \A i \in 1..Len(calls) : calls[i].model = PreparedModel
    /\ (calls # <<>>) =>
         /\ printed # <<>> /\ Len(datas) >= 1
         /\ \A i \in 1..Len(datas) : LenPos(datas[i], tensors) = n_atom
         /\ model = PreparedModel
    /\ no_compile => model.form \in {"none", "eager"}

C16_FormOneWay ==
    /\ (model.form = "script") => (model'.form = "script")
    /\ (model.form = "eager") => (model'.form \in {"eager", "script"})
    /\ (model.form = "none") => (model'.form \in {"none", "eager"})

\* C16: every invocation is made on the fully prepared model and after the
\* frame validation passed: with compilation, on the compiled, deployed,
\* frozen module as reloaded the second time, never on the eager one; with
\* --no-compile on the eager model, which stays eager. The form of the model
\* only ever goes from eager to compiled, never back, so at most once.
C16_PreparedAndOneWay == []C16_InvokedPrepared /\ [][C16_FormOneWay]_vars

C16_Witness ==
    /\ pc = "done" /\ outcome = "ok" /\ ~no_compile /\ n = MaxN
    /\ Len(calls) > 0 /\ calls[1].model.loads = 2 /\ calls[1].model.frozen
    /\ calls[Len(calls)].model = calls[1].model
FirstTimed(i) == calls[i].kind = "timed" /\ (i = 1 \/ calls[i - 1].kind # "timed")

\* C17: for a sample count n-data >= 1 the j-th invocation of the run,
\* counting from 0 across all phases, receives pool frame j mod n-data, and
\* the first timed invocation of a timing run receives pool frame
\* warmup mod n-data.
C17_SharedCursorModNData ==
    (n_data >= 1) =>
        \A i \in 1..Len(calls) :
            /\ calls[i].pos = ((i - 1) % n_data) + 1
            /\ FirstTimed(i) => calls[i].pos = (warmup % n_data) + 1
Uniform == \A i \in 1..Len(datas) : LenPos(datas[i], tensors) = LenPos(datas[1], tensors)

\* C18: the frames are sampled and their atom counts compared before the
\* -n 0 short circuit: a run with n = 0 whose sampled frames differ in atom
\* count ends with the variable-size error, not with the clean exit; and in
\* every run the comparison has passed before the model is constructed.
C18_ValidationBeforeShortCircuit ==
    /\ (n = 0 /\ pc \notin {"sample", "validate"} /\ Len(datas) >= 1 /\ ~Uniform) =>
         (pc = "failed" /\ outcome = "NotImplementedError" /\ printed = <<>>)
    /\ (outcome = "quit") => (n = 0 /\ Len(datas) >= 1 /\ Uniform /\ cycled)
    /\ (pc \in {"shortcircuit", "build"} \/ model # NoModel) =>
         /\ Len(datas) >= 1 /\ Uniform
         /\ n_atom = LenPos(datas[1], tensors)
         /\ printed # <<>> /\ cycled

C18_Witness ==
    /\ n = 0 /\ pc = "failed" /\ outcome = "NotImplementedError"
    /\ Len(datas) = MaxDataset /\ ~Uniform /\ model = NoModel

C18_ModelBuiltReached ==
    /\ model # NoModel /\ pc = "compile" /\ Len(datas) = MaxDataset /\ Uniform
====
